---- MODULE Spec2Model ----
(***************************************************************************)
(* AC pulse counter (src/AC_Pulse_Counter.ino): hysteresis level detector, *)
(* debounce filter, pulse-width classifier and periodic reporter, driven   *)
(* by one polling loop over a millisecond clock.                           *)
(*                                                                         *)
(* The program's globals are the variables of the same names.  The inputs  *)
(* of a step are the value millis() returns and the value analogRead()     *)
(* returns.  Variables below the line "observation" record what a step did *)
(* (what it printed, which branch it took) and the history the properties  *)
(* speak about; the program never reads them.                              *)
(***************************************************************************)
EXTENDS Integers, Sequences, FiniteSets

(* ---- configuration, lines 19-26 ---- *)
SAMPLE_INTERVAL == 1
REPORT_PERIOD == 5000
HIGH_THRESHOLD == 532
LOW_THRESHOLD == 492
MIN_PULSE_WIDTH == 70
MAX_PULSE_WIDTH == 1000
DEBOUNCE_TIME == 10

(* ---- bounds of the model ---- *)
\* width of the millisecond clock and of every unsigned long, in bits
ClockBits == 14
\* no step is taken once this many milliseconds have passed since boot
MaxTime == 24
\* scored pulses (valid + invalid) after which the pulse environment stops
MaxPulses == 3
\* the same for the pulse environments
PulseMaxTime == 1110
StatsMaxTime == 440
ReportMaxTime == 10002
\* the overflow environment follows the clock from WrapLead before the
\* overflow to WrapMargin after it in small steps
WrapLead == 100
WrapMargin == 100
\* the length up to which a run of LOW samples is counted
RunCap == 3
\* the clock value of the first HIGH sample of end-to-end scenario A
ScenarioT0 == 3

Wrap == 2 ^ ClockBits

VARIABLES
    \* program state
    currentValue, currentState, previousState, stableState,
    lastStateChangeTime, pulseStartTime, pulseEndTime, pulseDuration,
    lastReportTime, lastSampleTime,
    totalPulseCount, invalidPulseCount, lastPulseDuration,
    minPulseDuration, maxPulseDuration,
    \* control and clock
    pc, clock,
    \* observation
    elapsed, sampled, rawChange, edge, reported, reportCount,
    risingCount, fallingCount, readTime,
    hasFlipped, lastFlipElapsed, burstStable, burstEdges, burstFlips,
    lowRun, lowRunChanges,
    pulseDurations, validDurations, allDead, initialStable,
    setupTime, lastReportElapsed, lastChangeElapsed, pulseStartElapsed,
    rate

prog == <<currentValue, currentState, previousState, stableState,
          lastStateChangeTime, pulseStartTime, pulseEndTime, pulseDuration,
          lastReportTime, lastSampleTime,
          totalPulseCount, invalidPulseCount, lastPulseDuration,
          minPulseDuration, maxPulseDuration>>

obs == <<elapsed, sampled, rawChange, edge, reported, reportCount,
         risingCount, fallingCount, readTime,
         hasFlipped, lastFlipElapsed, burstStable, burstEdges, burstFlips,
         lowRun, lowRunChanges,
         pulseDurations, validDurations, allDead, initialStable,
         setupTime, lastReportElapsed, lastChangeElapsed, pulseStartElapsed,
         rate>>

vars == <<prog, pc, clock, obs>>

(* ---- unsigned long arithmetic ---- *)
\* the difference taken as a signed number, as "t >= last + n" would
SubSigned(a, b) == a - b

Sub(a, b) == (a - b) % Wrap

Inc(a) == (a + 1) % Wrap

(* ---- the conditions of loop() ---- *)
\* the gate without the interval: every iteration samples
SampleDueAlways(t, last) == Sub(t, last) >= 0

\* line 79
SampleDue(t, last) == Sub(t, last) >= SAMPLE_INTERVAL

\* the thresholds taken inclusive
LevelInclusive(v, cur) ==
    IF v >= HIGH_THRESHOLD THEN TRUE
    ELSE IF v <= LOW_THRESHOLD THEN FALSE
    ELSE cur

\* lines 86-90: hysteresis
Level(v, cur) ==
    IF v > HIGH_THRESHOLD THEN TRUE
    ELSE IF v < LOW_THRESHOLD THEN FALSE
    ELSE cur

\* line 60
InitialLevel(v) == v > HIGH_THRESHOLD

\* the raw change never detected
RawChangedNever(cur, prev) == FALSE

\* line 94
RawChanged(cur, prev) == cur # prev

\* previousState never updated
NextPreviousStale(chg, cur, prev) == prev

\* line 97
NextPrevious(chg, cur, prev) == IF chg THEN cur ELSE prev

\* confirmation only at the instant the interval expires
DebounceElapsedExact(t, lsc) == Sub(t, lsc) = DEBOUNCE_TIME

\* the interval one millisecond short
DebounceElapsedShort(t, lsc) == Sub(t, lsc) >= DEBOUNCE_TIME - 1

\* the debounce comparison taken strict
DebounceElapsedStrict(t, lsc) == Sub(t, lsc) > DEBOUNCE_TIME

\* line 101
DebounceElapsed(t, lsc) == Sub(t, lsc) >= DEBOUNCE_TIME

\* line 103
Confirmed(cur, stable) == cur # stable

\* the start of a pulse kept from the first rising edge on
NextPulseStartFirstOnly(rise, t, start) ==
    IF rise /\ start = 0 THEN t ELSE start

\* lines 105-107
NextPulseStart(rise, t, start) == IF rise THEN t ELSE start

\* the pulse scored on every confirmed transition
IsFallingAlways(cur) == TRUE

\* lines 105-108: the else branch is the falling edge
IsFalling(cur) == ~cur

\* the operands of the subtraction swapped
DurationSwapped(end, start) == Sub(start, end)

\* line 111
Duration(end, start) == Sub(end, start)

\* the valid range taken open at its lower end
IsValidOpen(d) == d > MIN_PULSE_WIDTH /\ d <= MAX_PULSE_WIDTH

\* line 114
IsValid(d) == d >= MIN_PULSE_WIDTH /\ d <= MAX_PULSE_WIDTH

\* the minimum without the "no pulse yet" case
NewMinNoSentinel(min, d) == IF d < min THEN d ELSE min

\* the last duration taken from every pulse, valid or not
NewLastAlways(valid, last, d) == d

\* lines 114-117
NewLast(valid, last, d) == IF valid THEN d ELSE last

\* lines 120-122
NewMin(min, d) == IF min = 0 \/ d < min THEN d ELSE min

\* the comparison of the maximum inverted
NewMaxInverted(max, d) == IF d < max THEN d ELSE max

\* lines 123-125
NewMax(max, d) == IF d > max THEN d ELSE max

\* line 152
ReportDue(t, last) == Sub(t, last) >= REPORT_PERIOD

\* the next period counted from the previous period's end
NextReportBaseFixed(t, last) == (last + REPORT_PERIOD) % Wrap

\* line 180
NextReportBase(t, last) == t

\* a statistic reset with each report
AfterReportReset(rep, n) == IF rep THEN 0 ELSE n

\* lines 152-181: the report prints the statistics and writes none of them
AfterReport(rep, n) == n

\* line 172: the printed rate n / (t / 1000.0), kept as the pair of its
\* operands; the float division by zero gives infinity, not a trap
Rate(n, t) == IF t = 0 THEN "inf" ELSE <<n * 1000, t>>

\* the loop stopped by an invalid pulse
NextPcHalt(invalid) == IF invalid THEN "halt" ELSE "run"

\* line 182: loop() returns and is called again, whatever it did
NextPc(invalid) == "run"

(* ---- the state before setup(): the globals' initialisers, lines 29-45 ---- *)
Init ==
    /\ currentValue = 0
    /\ currentState = FALSE
    /\ previousState = FALSE
    /\ stableState = FALSE
    /\ lastStateChangeTime = 0
    /\ pulseStartTime = 0
    /\ pulseEndTime = 0
    /\ pulseDuration = 0
    /\ lastReportTime = 0
    /\ lastSampleTime = 0
    /\ totalPulseCount = 0
    /\ invalidPulseCount = 0
    /\ lastPulseDuration = 0
    /\ minPulseDuration = 0
    /\ maxPulseDuration = 0
    /\ pc = "boot"
    /\ clock = 0
    /\ elapsed = 0
    /\ sampled = FALSE
    /\ rawChange = FALSE
    /\ edge = "none"
    /\ reported = FALSE
    /\ reportCount = 0
    /\ risingCount = 0
    /\ fallingCount = 0
    /\ readTime = 0
    /\ hasFlipped = FALSE
    /\ lastFlipElapsed = 0
    /\ burstStable = FALSE
    /\ burstEdges = 0
    /\ burstFlips = 0
    /\ lowRun = 0
    /\ lowRunChanges = 0
    /\ pulseDurations = <<>>
    /\ validDurations = <<>>
    /\ allDead = TRUE
    /\ initialStable = FALSE
    /\ setupTime = 0
    /\ lastReportElapsed = 0
    /\ lastChangeElapsed = 0
    /\ pulseStartElapsed = 0
    /\ rate = "none"

(* ---- setup(), lines 47-73.  t1, t2, t3 are what the three millis() calls
        return (lines 55, 56, 62), v is what analogRead returns (line 59). ---- *)
setup(t1, t2, t3, v) ==
    /\ pc = "boot"
    /\ pc' = "run"
    /\ lastReportTime' = t1
    /\ lastSampleTime' = t2
    /\ currentValue' = v
    /\ previousState' = InitialLevel(v)
    /\ stableState' = InitialLevel(v)
    /\ lastStateChangeTime' = t3
    /\ clock' = t3
    /\ UNCHANGED <<currentState, pulseStartTime, pulseEndTime, pulseDuration,
                   totalPulseCount, invalidPulseCount, lastPulseDuration,
                   minPulseDuration, maxPulseDuration>>
    /\ elapsed' = t3
    /\ readTime' = t2
    /\ initialStable' = InitialLevel(v)
    /\ setupTime' = t1
    /\ lastReportElapsed' = t1
    /\ lastChangeElapsed' = t3
    /\ UNCHANGED <<pulseStartElapsed, rate>>
    /\ UNCHANGED <<sampled, rawChange, edge, reported, reportCount,
                   risingCount, fallingCount, hasFlipped, lastFlipElapsed,
                   burstStable, burstEdges, burstFlips, lowRun, lowRunChanges,
                   pulseDurations, validDurations, allDead>>

(* ---- one iteration of loop(), lines 75-182.  d is the time that passed
        since the previous millis() call, v is what analogRead would
        return. ---- *)
loop(d, v) ==
    /\ pc = "run"
    /\ LET t       == (clock + d) % Wrap                           \* line 76
           due     == SampleDue(t, lastSampleTime)                 \* line 79
           cur1    == IF due THEN Level(v, currentState) ELSE currentState
           chg     == due /\ RawChanged(cur1, previousState)       \* line 94
           lsc1    == IF chg THEN t ELSE lastStateChangeTime       \* line 96
           conf    == /\ due
                      /\ DebounceElapsed(t, lsc1)                  \* line 101
                      /\ Confirmed(cur1, stableState)              \* line 103
           rise    == conf /\ cur1                                 \* line 105
           fall    == conf /\ IsFalling(cur1)                      \* line 108
           dur     == Duration(t, pulseStartTime)                  \* line 111
           valid   == fall /\ IsValid(dur)                         \* line 114
           invalid == fall /\ ~IsValid(dur)                        \* line 133
           rep     == ReportDue(t, lastReportTime)                 \* line 152
           flip    == due /\ cur1 # currentState
           burst   == flip /\ (~hasFlipped
                               \/ (elapsed + d) - lastFlipElapsed >= DEBOUNCE_TIME)
       IN
       /\ clock' = t
       /\ lastSampleTime' = IF due THEN t ELSE lastSampleTime      \* line 80
       /\ currentValue' = IF due THEN v ELSE currentValue          \* line 83
       /\ currentState' = cur1
       /\ previousState' = NextPrevious(chg, cur1, previousState)  \* line 97
       /\ lastStateChangeTime' = lsc1
       /\ pulseStartTime' = NextPulseStart(rise, t, pulseStartTime) \* line 107
       /\ pulseEndTime' = IF fall THEN t ELSE pulseEndTime         \* line 110
       /\ pulseDuration' = IF fall THEN dur ELSE pulseDuration     \* line 111
       /\ totalPulseCount' = AfterReport(rep,
              IF valid THEN Inc(totalPulseCount) ELSE totalPulseCount)  \* line 116
       /\ lastPulseDuration' = AfterReport(rep,
              IF fall THEN NewLast(valid, lastPulseDuration, dur)
              ELSE lastPulseDuration)                                   \* line 117
       /\ minPulseDuration' = AfterReport(rep,
              IF valid THEN NewMin(minPulseDuration, dur) ELSE minPulseDuration)
       /\ maxPulseDuration' = AfterReport(rep,
              IF valid THEN NewMax(maxPulseDuration, dur) ELSE maxPulseDuration)
       /\ invalidPulseCount' = AfterReport(rep,
              IF invalid THEN Inc(invalidPulseCount) ELSE invalidPulseCount) \* line 135
       /\ stableState' = IF conf THEN cur1 ELSE stableState        \* line 146
       /\ lastReportTime' =
              IF rep THEN NextReportBase(t, lastReportTime) ELSE lastReportTime
       /\ pc' = NextPc(invalid)                                    \* line 182
       \* observation
       /\ elapsed' = elapsed + d
       /\ sampled' = due
       /\ rawChange' = chg
       /\ edge' = IF rise THEN "rising" ELSE IF fall THEN "falling" ELSE "none"
       /\ reported' = rep
       /\ reportCount' = IF rep THEN reportCount + 1 ELSE reportCount
       /\ risingCount' = IF rise THEN risingCount + 1 ELSE risingCount
       /\ fallingCount' = IF fall THEN fallingCount + 1 ELSE fallingCount
       /\ readTime' = IF due THEN elapsed + d ELSE readTime
       /\ hasFlipped' = (hasFlipped \/ flip)
       /\ lastFlipElapsed' = IF flip THEN elapsed + d ELSE lastFlipElapsed
       /\ burstStable' = IF burst THEN stableState ELSE burstStable
       /\ burstEdges' = (IF burst THEN 0 ELSE burstEdges) + (IF conf THEN 1 ELSE 0)
       /\ burstFlips' = IF burst THEN 1
                        ELSE IF flip THEN burstFlips + 1 ELSE burstFlips
       /\ lowRun' = IF ~due THEN lowRun
                    ELSE IF v >= LOW_THRESHOLD THEN 0
                    ELSE IF currentState THEN 1
                    ELSE IF lowRun = 0 THEN 0
                    ELSE IF lowRun < RunCap THEN lowRun + 1 ELSE lowRun
       /\ lowRunChanges' = IF ~due THEN lowRunChanges
                           ELSE IF v >= LOW_THRESHOLD THEN 0
                           ELSE IF currentState THEN (IF chg THEN 1 ELSE 0)
                           ELSE IF lowRun = 0 THEN 0
                           ELSE lowRunChanges + (IF chg THEN 1 ELSE 0)
       /\ pulseDurations' =
              IF fall THEN Append(pulseDurations, dur) ELSE pulseDurations
       /\ validDurations' =
              IF valid THEN Append(validDurations, dur) ELSE validDurations
       /\ allDead' = (allDead /\ (due => (v >= LOW_THRESHOLD /\ v <= HIGH_THRESHOLD)))
       /\ initialStable' = initialStable
       /\ setupTime' = setupTime
       /\ lastReportElapsed' = IF rep THEN elapsed + d ELSE lastReportElapsed
       /\ lastChangeElapsed' = IF chg THEN elapsed + d ELSE lastChangeElapsed
       /\ pulseStartElapsed' = IF rise THEN elapsed + d ELSE pulseStartElapsed
       /\ rate' = IF rep /\ (IF valid THEN Inc(totalPulseCount)
                                      ELSE totalPulseCount) > 0          \* line 160
                   THEN Rate(IF valid THEN Inc(totalPulseCount)
                                      ELSE totalPulseCount, t)
                   ELSE "none"

(* ---- environments ---- *)
\* sample values on both sides of each threshold
Samples == {LOW_THRESHOLD - 1, LOW_THRESHOLD, HIGH_THRESHOLD, HIGH_THRESHOLD + 1}

\* the clock may tick between two millis() calls of setup()
Skew == {0, 1}

\* time between two loop iterations: none, one tick, just under and exactly
\* the debounce time
Deltas == {0, 1, DEBOUNCE_TIME - 1, DEBOUNCE_TIME}

SetupStep ==
    \E a \in Skew, b \in Skew, v \in Samples : setup(0, a, a + b, v)

LoopStep ==
    \E d \in Deltas, v \in Samples :
        /\ elapsed + d <= MaxTime
        /\ loop(d, v)

Next == SetupStep \/ LoopStep

Spec == Init /\ [][Next]_vars

(* ---- pulse environments: a clean square wave.  Samples are plainly LOW
        or HIGH, iterations are DEBOUNCE_TIME or more apart, and the input
        holds a level until the transition to it is confirmed and no longer, so that
        whole pulses fit into a few steps ---- *)
PulseSamples == {LOW_THRESHOLD - 1, HIGH_THRESHOLD + 1}

\* the input v holds its level while a confirmation is pending, and flips
\* the raw state otherwise
Progress(v) ==
    IF currentState # stableState
    THEN Level(v, currentState) = currentState
    ELSE Level(v, currentState) # currentState

\* steps that put a pulse just below, at, and just above each end of the
\* valid range once the DEBOUNCE_TIME of the confirmation is added
BoundaryDeltas ==
    {DEBOUNCE_TIME,
     MIN_PULSE_WIDTH - DEBOUNCE_TIME - 1, MIN_PULSE_WIDTH - DEBOUNCE_TIME,
     MAX_PULSE_WIDTH - DEBOUNCE_TIME, MAX_PULSE_WIDTH - DEBOUNCE_TIME + 1}

SetupPulse == \E v \in PulseSamples : setup(0, 0, 0, v)

LoopBoundary ==
    \E d \in BoundaryDeltas, v \in PulseSamples :
        /\ elapsed + d <= PulseMaxTime
        /\ Len(pulseDurations) < MaxPulses
        /\ Progress(v)
        /\ loop(d, v)

NextBoundary == SetupPulse \/ LoopBoundary

SpecBoundary == Init /\ [][NextBoundary]_vars

\* steps that make pulses of 50, 100 and 200 ms (and their sums)
StatsDeltas == {DEBOUNCE_TIME, 40, 90, 190}

LoopStats ==
    \E d \in StatsDeltas, v \in PulseSamples :
        /\ elapsed + d <= StatsMaxTime
        /\ Len(pulseDurations) < MaxPulses
        /\ Progress(v)
        /\ loop(d, v)

NextStats == SetupPulse \/ LoopStats

SpecStats == Init /\ [][NextStats]_vars

(* ---- end-to-end scenario A: LOW until ScenarioT0, HIGH for 200 ms, LOW
        afterwards; the loop runs at least once per millisecond ---- *)
ScenarioSample(t) ==
    IF t < ScenarioT0 THEN LOW_THRESHOLD - 1
    ELSE IF t < ScenarioT0 + 200 THEN HIGH_THRESHOLD + 1
    ELSE LOW_THRESHOLD - 1

ScenarioEnd == ScenarioT0 + 200 + 2 * DEBOUNCE_TIME

SetupScenarioA == setup(0, 0, 0, ScenarioSample(0))

LoopScenarioA ==
    \E d \in {0, 1} :
        /\ elapsed + d <= ScenarioEnd
        /\ loop(d, ScenarioSample(elapsed + d))

NextScenarioA == SetupScenarioA \/ LoopScenarioA

SpecScenarioA == Init /\ [][NextScenarioA]_vars

(* ---- report environment: iterations that fall just before, on and just
        after the end of a report period ---- *)
ReportDeltas == {0, REPORT_PERIOD - 1, REPORT_PERIOD, REPORT_PERIOD + 1}

SetupReport == \E a \in Skew, b \in Skew, v \in Samples : setup(0, a, a + b, v)

LoopReport ==
    \E d \in ReportDeltas, v \in Samples :
        /\ elapsed + d <= ReportMaxTime
        /\ loop(d, v)

NextReport == SetupReport \/ LoopReport

SpecReport == Init /\ [][NextReport]_vars

(* ---- overflow environment: the first iteration comes WrapLead before the
        clock overflows; a square wave is then followed in small steps
        across the overflow, and steps of about a report period lead to the
        first report after it ---- *)
WrapSmall == {DEBOUNCE_TIME, MIN_PULSE_WIDTH - DEBOUNCE_TIME}

WrapLarge == {REPORT_PERIOD - WrapLead, REPORT_PERIOD}

LoopWrap ==
    \E d \in WrapSmall \cup WrapLarge \cup {Wrap - WrapLead}, v \in PulseSamples :
        /\ IF elapsed = 0 THEN d = Wrap - WrapLead
           ELSE \/ d \in WrapSmall /\ elapsed + d <= Wrap + WrapMargin
                \/ d \in WrapLarge /\ elapsed + d <= Wrap + REPORT_PERIOD + WrapMargin
        /\ Progress(v)
        /\ loop(d, v)

NextWrap == SetupPulse \/ LoopWrap

SpecWrap == Init /\ [][NextWrap]_vars

(* ======================= properties ======================= *)

\* the parts of the state the sampling branch (lines 79-149) may write
sampling == <<currentValue, currentState, previousState, stableState,
              lastStateChangeTime, pulseStartTime, pulseEndTime, pulseDuration,
              totalPulseCount, invalidPulseCount, lastPulseDuration,
              minPulseDuration, maxPulseDuration, lastSampleTime>>

\* the raw state flipped less than DEBOUNCE_TIME ago
BurstFlipping == hasFlipped /\ elapsed - lastFlipElapsed < DEBOUNCE_TIME

\* a sampling tick has seen the raw state constant for DEBOUNCE_TIME or more
BurstSettled == hasFlipped /\ elapsed - lastFlipElapsed >= DEBOUNCE_TIME

\* C1 as stated: a sequence of raw flips, each less than DEBOUNCE_TIME after
\* the one before, produces no confirmed transition while it lasts and
\* exactly one once the raw state has then stayed constant for DEBOUNCE_TIME
\* (here for the runs in which setup() read LOW, where currentState agrees
\* with previousState and stableState from the start).
C1_ExactlyOne ==
    (pc = "run" /\ ~initialStable) =>
        /\ BurstFlipping => burstEdges = 0
        /\ BurstSettled => burstEdges = 1

\* C1 amended: such a sequence produces no confirmed transition while it
\* lasts; once the raw state has stayed constant for DEBOUNCE_TIME it has
\* produced exactly one if the settled raw state differs from the stableState
\* the sequence began with, none if they are equal, and stableState equals
\* the settled raw state.
C1_DebounceSuppression ==
    pc = "run" =>
        /\ BurstFlipping => burstEdges = 0
        /\ BurstSettled =>
               /\ stableState = currentState
               /\ burstEdges = IF burstStable # currentState THEN 1 ELSE 0

\* C1 witness: three flips in one sequence, settled, one transition confirmed
C1_Witness ==
    BurstSettled /\ burstFlips >= 3 /\ burstEdges = 1 /\ edge # "none"

\* C5 as stated: whatever setup() read, while every sample read in loop() is
\* in the dead zone stableState keeps its initial value, no transition is
\* confirmed and both counters stay 0.
C5_NoInitialTransition ==
    (pc = "run" /\ allDead) =>
        /\ stableState = initialStable
        /\ risingCount = 0 /\ fallingCount = 0
        /\ totalPulseCount = 0 /\ invalidPulseCount = 0

\* C6 as stated: a confirmed falling transition with no confirmed rising
\* transition before it is not scored: as long as no rising transition has
\* been confirmed, the counters and the last/min/max durations keep their
\* initial values.
C6_SpuriousFallNotScored ==
    risingCount = 0 =>
        /\ totalPulseCount = 0 /\ invalidPulseCount = 0
        /\ lastPulseDuration = 0 /\ minPulseDuration = 0 /\ maxPulseDuration = 0

\* C7: in a run of samples below LOW_THRESHOLD that starts with the raw state
\* HIGH, the raw state is LOW from the first sample on and the raw-change
\* detection (line 94) has fired exactly once, however long the run.
C7_Hysteresis ==
    lowRun >= 1 => (~currentState /\ ~previousState /\ lowRunChanges = 1)

\* C7 witness: such a run, RunCap samples long, the last one changing nothing
C7_Witness == lowRun = RunCap /\ sampled /\ ~rawChange

\* C8: a sampling tick whose sample lies in LOW_THRESHOLD..HIGH_THRESHOLD
\* leaves currentState unchanged.
C8_DeadZone ==
    [][(pc = "run" /\ sampled'
            /\ currentValue' >= LOW_THRESHOLD /\ currentValue' <= HIGH_THRESHOLD)
        => currentState' = currentState]_vars

\* C8 witness: the raw state is HIGH after a tick that read LOW_THRESHOLD
C8_Witness ==
    pc = "run" /\ sampled /\ currentValue = LOW_THRESHOLD /\ currentState

\* C9: two consecutive analogRead calls (setup's and loop's) are at least
\* SAMPLE_INTERVAL apart, and an iteration with less than SAMPLE_INTERVAL
\* elapsed since lastSampleTime reads nothing and leaves the level, debounce
\* and pulse state alone.
C9_SamplerGating ==
    [][pc = "run" =>
        /\ sampled' => readTime' - readTime >= SAMPLE_INTERVAL
        /\ Sub(clock', lastSampleTime) < SAMPLE_INTERVAL =>
               (~sampled' /\ readTime' = readTime /\ UNCHANGED sampling)]_vars

\* C9 witness: an iteration after the first flip that took no sample
C9_Witness == pc = "run" /\ hasFlipped /\ ~sampled /\ readTime = elapsed


(* ---- helpers of the properties on pulse histories ---- *)
InRange(d) == MIN_PULSE_WIDTH <= d /\ d <= MAX_PULSE_WIDTH

Elems(q) == {q[i] : i \in 1..Len(q)}

SeqMin(q) == CHOOSE x \in Elems(q) : \A y \in Elems(q) : x <= y

SeqMax(q) == CHOOSE x \in Elems(q) : \A y \in Elems(q) : x >= y

\* C2: a confirmed falling transition counts in totalPulseCount if
\* MIN_PULSE_WIDTH <= pulseDuration <= MAX_PULSE_WIDTH and in
\* invalidPulseCount otherwise, both ends of the range being valid: of the
\* durations scored so far, those in the closed range are the ones counted
\* valid, and the two counters count the two kinds.
C2_ValidityInterval ==
    /\ validDurations = SelectSeq(pulseDurations, InRange)
    /\ totalPulseCount = Len(validDurations)
    /\ invalidPulseCount = Len(pulseDurations) - Len(validDurations)
    /\ edge = "falling" => pulseDuration = pulseDurations[Len(pulseDurations)]

\* C2 witness: a pulse of exactly MAX_PULSE_WIDTH has just been counted
\* valid, after one of MIN_PULSE_WIDTH - 1 that was counted invalid
C2_Witness ==
    /\ edge = "falling" /\ ~initialStable
    /\ pulseDurations = <<MIN_PULSE_WIDTH - 1, MAX_PULSE_WIDTH>>
    /\ totalPulseCount = 1 /\ invalidPulseCount = 1

\* C3: end-to-end scenario A, times counted from the first HIGH sample
\* (clock value ScenarioT0): the rising transition is confirmed at 10, the
\* falling one at 210, pulseDuration is 200, the pulse is valid,
\* totalPulseCount becomes 1 and invalidPulseCount stays 0.
C3_ScenarioA ==
    pc = "run" =>
        /\ invalidPulseCount = 0
        /\ elapsed < ScenarioT0 + 10 =>
               risingCount = 0 /\ ~stableState
        /\ elapsed >= ScenarioT0 + 10 =>
               risingCount = 1 /\ pulseStartTime = ScenarioT0 + 10
        /\ elapsed >= ScenarioT0 + 10 /\ elapsed < ScenarioT0 + 210 =>
               stableState /\ fallingCount = 0 /\ totalPulseCount = 0
        /\ elapsed >= ScenarioT0 + 210 =>
               /\ fallingCount = 1 /\ ~stableState
               /\ pulseEndTime = ScenarioT0 + 210
               /\ pulseDuration = 200
               /\ totalPulseCount = 1
               /\ lastPulseDuration = 200

\* C3 witness: the iteration that confirms the falling transition
C3_Witness ==
    elapsed = ScenarioT0 + 210 /\ edge = "falling" /\ totalPulseCount = 1

\* C4 as stated, the example: pulses of 100, 50 and 200 ms in order are
\* three valid pulses and give last = 200, min = 50, max = 200, count 3
\* (here for the runs that start LOW, where every pulse has its rising edge).
C4_Example ==
    (pulseDurations = <<100, 50, 200>> /\ ~initialStable) =>
        /\ lastPulseDuration = 200 /\ minPulseDuration = 50
        /\ maxPulseDuration = 200 /\ totalPulseCount = 3

\* C4 amended: after any sequence of valid pulses lastPulseDuration is the
\* most recent valid duration, minPulseDuration the least and
\* maxPulseDuration the greatest of them and totalPulseCount their number;
\* valid durations 100, 80, 200 give last 200, min 80, max 200, count 3,
\* while pulses of 100, 50, 200 give last 200, min 100, max 200, count 2 and
\* one invalid pulse, 50 being below MIN_PULSE_WIDTH.
C4_MinMaxTracking ==
    /\ totalPulseCount = Len(validDurations)
    /\ validDurations # <<>> =>
           /\ lastPulseDuration = validDurations[Len(validDurations)]
           /\ minPulseDuration = SeqMin(validDurations)
           /\ maxPulseDuration = SeqMax(validDurations)
    /\ validDurations = <<100, 80, 200>> =>
           /\ lastPulseDuration = 200 /\ minPulseDuration = 80
           /\ maxPulseDuration = 200 /\ totalPulseCount = 3
    /\ pulseDurations = <<100, 50, 200>> =>
           /\ lastPulseDuration = 200 /\ minPulseDuration = 100
           /\ maxPulseDuration = 200 /\ totalPulseCount = 2
           /\ invalidPulseCount = 1

\* C4 witness: the pulses of the example have been scored
C4_Witness ==
    pulseDurations = <<100, 50, 200>> /\ ~initialStable /\ edge = "falling"

\* C10 as stated: with k - 1 reports emitted so far, an iteration emits the
\* k-th report exactly if its clock time is at or after
\* setup time + k * REPORT_PERIOD.
C10_FromStart ==
    [][pc = "run" =>
        (reported' <=> elapsed' - setupTime >= (reportCount + 1) * REPORT_PERIOD)]_vars

\* C10 amended: an iteration emits a report exactly if its clock time is at
\* or after the previous report's time (setup's, for the first)
\* + REPORT_PERIOD, which no earlier iteration's was; consecutive reports
\* are REPORT_PERIOD or more apart.
C10_ReportPeriod ==
    [][pc = "run" =>
        /\ elapsed - lastReportElapsed < REPORT_PERIOD
        /\ reported' <=> elapsed' - lastReportElapsed >= REPORT_PERIOD
        /\ reported' => /\ reportCount' = reportCount + 1
                        /\ lastReportElapsed' = elapsed'
                        /\ lastReportTime' = clock'
        /\ ~reported' => /\ reportCount' = reportCount
                         /\ lastReportTime' = lastReportTime]_vars

\* C10 witness: the second report, emitted late after a late first one
C10_Witness ==
    reported /\ reportCount = 2 /\ elapsed - setupTime > 2 * REPORT_PERIOD

\* C11: each of the four time comparisons sees the true elapsed time as long
\* as that is below 2^ClockBits, also when the clock has overflowed between
\* the two timestamps: a sample is taken exactly if SAMPLE_INTERVAL has
\* passed since the last one, a transition is confirmed exactly if the raw
\* state differs from stableState and DEBOUNCE_TIME has passed since the last
\* raw change, a report is emitted exactly if REPORT_PERIOD has passed since
\* the last, and a pulse's duration is the true time since its rising edge
\* and is classified by it.
C11_WrapSafe ==
    [][pc = "run" =>
        /\ elapsed' - readTime < Wrap =>
               (sampled' <=> elapsed' - readTime >= SAMPLE_INTERVAL)
        /\ (sampled' /\ elapsed' - lastChangeElapsed' < Wrap) =>
               (stableState' # stableState <=>
                   /\ elapsed' - lastChangeElapsed' >= DEBOUNCE_TIME
                   /\ currentState' # stableState)
        /\ elapsed' - lastReportElapsed < Wrap =>
               (reported' <=> elapsed' - lastReportElapsed >= REPORT_PERIOD)
        /\ (stableState /\ ~stableState' /\ elapsed' - pulseStartElapsed < Wrap) =>
               /\ pulseDuration' = elapsed' - pulseStartElapsed
               /\ IF InRange(elapsed' - pulseStartElapsed)
                  THEN /\ totalPulseCount' = totalPulseCount + 1
                       /\ invalidPulseCount' = invalidPulseCount
                  ELSE /\ totalPulseCount' = totalPulseCount
                       /\ invalidPulseCount' = invalidPulseCount + 1]_vars

\* C11 witness: a valid pulse whose rising edge was confirmed before the
\* overflow and whose falling edge after it, the raw change before and the
\* confirmation after
C11_Witness ==
    /\ edge = "falling" /\ totalPulseCount >= 1
    /\ pulseStartElapsed < Wrap /\ lastChangeElapsed < Wrap /\ elapsed >= Wrap
    /\ clock < lastStateChangeTime /\ clock < pulseStartTime

\* the largest value analogRead returns (10-bit converter)
ADC_MAX == 1023

\* sample values across the device range: both ends, both thresholds and
\* their neighbours
DeviceSamples ==
    {0, LOW_THRESHOLD - 1, LOW_THRESHOLD, HIGH_THRESHOLD, HIGH_THRESHOLD + 1, ADC_MAX}

\* clock advances between two iterations: none, one tick, each interval the
\* code compares against, and the largest the clock can represent
ClockSteps == {0, SAMPLE_INTERVAL, DEBOUNCE_TIME, REPORT_PERIOD, Wrap - 1}

\* C12: once setup has returned, an iteration of loop is enabled in every
\* reachable state for every sample value and every clock advance, and it
\* leaves the program ready for the next iteration: nothing is fatal.
C12_LoopNeverStuck ==
    pc # "boot" => \A d \in ClockSteps, v \in DeviceSamples : ENABLED loop(d, v)

\* C12 witness: the loop has just counted an invalid pulse after the clock
\* overflowed, and is ready to run again
C12_Witness ==
    /\ pc = "run" /\ edge = "falling" /\ invalidPulseCount >= 1
    /\ elapsed >= Wrap

\* C13: on every sampling tick on which the raw state differs from
\* stableState and at least DEBOUNCE_TIME has passed since the raw state last
\* changed, stableState takes the raw state and the matching transition is
\* emitted (rising for HIGH, falling for LOW), whether or not the tick falls
\* exactly on the expiry; so the confirmation comes on the first such tick.
C13_LevelTriggered ==
    [][(/\ pc = "run" /\ sampled'
        /\ currentState' # stableState
        /\ elapsed' - lastChangeElapsed' >= DEBOUNCE_TIME) =>
           /\ stableState' = currentState'
           /\ edge' = (IF currentState' THEN "rising" ELSE "falling")]_vars

\* C13 witness: a transition confirmed later than the expiry instant, the
\* tick before it having come one millisecond early
C13_Witness ==
    /\ edge # "none" /\ ~initialStable
    /\ elapsed - lastChangeElapsed = 2 * DEBOUNCE_TIME - 2

\* C14: in loop, stableState changes only on a sampling tick and at most once
\* on it; when it changes, its new value is the raw state, at least
\* DEBOUNCE_TIME has passed since lastStateChangeTime, and the raw state has
\* not flipped on any tick after the one that set lastStateChangeTime.
\* (setup's initial assignment of stableState is not a change in this sense.)
C14_StableLags ==
    [][IF pc = "boot" THEN edge' = "none"
       ELSE IF stableState' # stableState
       THEN /\ sampled'
            /\ stableState' = currentState'
            /\ Sub(clock', lastStateChangeTime') >= DEBOUNCE_TIME
            /\ elapsed' - lastChangeElapsed' >= DEBOUNCE_TIME
            /\ hasFlipped' => lastFlipElapsed' <= lastChangeElapsed'
            /\ risingCount' + fallingCount' = risingCount + fallingCount + 1
       ELSE risingCount' + fallingCount' = risingCount + fallingCount]_vars

\* C14 witness: stableState has just followed a raw flip that lies exactly
\* DEBOUNCE_TIME back, after a start at LOW
C14_Witness ==
    /\ edge # "none" /\ ~initialStable /\ hasFlipped
    /\ lastFlipElapsed = lastChangeElapsed
    /\ elapsed - lastChangeElapsed = DEBOUNCE_TIME
    /\ stableState = currentState

Bit(b) == IF b THEN 1 ELSE 0

\* C15: confirmed transitions alternate in direction (a rising one is only
\* confirmed from stable LOW, a falling one only from stable HIGH, so the
\* numbers of the two never differ by more than the one pending pulse);
\* pulseStartTime is written by a confirmed rising transition only, hence
\* not between it and the falling transition that follows; and the duration
\* scored by a falling transition that has a rising one before it is the
\* time since the latest of them.
C15_OnePendingPulse ==
    [][pc = "run" =>
        /\ risingCount' - fallingCount' = Bit(stableState') - Bit(initialStable')
        /\ edge' = "rising" => ~stableState /\ risingCount' = risingCount + 1
        /\ edge' = "falling" => stableState /\ fallingCount' = fallingCount + 1
        /\ edge' = "none" => risingCount' = risingCount /\ fallingCount' = fallingCount
        /\ pulseStartTime' # pulseStartTime => edge' = "rising"
        /\ (edge' = "falling" /\ risingCount >= 1) =>
               /\ pulseStartElapsed = elapsed - (Sub(clock, pulseStartTime))
               /\ pulseDuration' = elapsed' - pulseStartElapsed
               /\ Len(pulseDurations') = Len(pulseDurations) + 1
               /\ pulseDurations'[Len(pulseDurations')] = elapsed' - pulseStartElapsed]_vars

\* C15 witness: the second pulse has just been scored after a start at LOW
C15_Witness ==
    /\ edge = "falling" /\ ~initialStable
    /\ risingCount = 2 /\ fallingCount = 2
    /\ pulseDuration = elapsed - pulseStartElapsed

\* C16: a confirmed falling transition whose duration lies outside
\* [MIN_PULSE_WIDTH, MAX_PULSE_WIDTH] adds one to invalidPulseCount and
\* leaves totalPulseCount and the last, minimum and maximum durations as
\* they were; one whose duration lies inside leaves invalidPulseCount as it
\* was.
C16_InvalidCountsOnly ==
    [][(pc = "run" /\ stableState /\ ~stableState') =>
        IF InRange(pulseDuration')
        THEN invalidPulseCount' = invalidPulseCount
        ELSE /\ invalidPulseCount' = invalidPulseCount + 1
             /\ totalPulseCount' = totalPulseCount
             /\ lastPulseDuration' = lastPulseDuration
             /\ minPulseDuration' = minPulseDuration
             /\ maxPulseDuration' = maxPulseDuration]_vars

\* C16 witness: an invalid pulse has just been counted after a valid one
\* whose duration is still the last one
C16_Witness ==
    /\ edge = "falling" /\ ~initialStable
    /\ ~InRange(pulseDuration)
    /\ invalidPulseCount >= 1 /\ totalPulseCount >= 1
    /\ lastPulseDuration # pulseDuration
    /\ InRange(lastPulseDuration)

\* C17: no iteration of loop decreases totalPulseCount, invalidPulseCount
\* or maxPulseDuration, and an iteration that emits a report without
\* confirming a falling transition leaves the two counters and the last,
\* minimum and maximum durations unchanged: a report resets nothing.
C17_Accumulating ==
    [][pc = "run" =>
        /\ totalPulseCount' >= totalPulseCount
        /\ invalidPulseCount' >= invalidPulseCount
        /\ maxPulseDuration' >= maxPulseDuration
        /\ (reported' /\ ~(stableState /\ ~stableState')) =>
               /\ totalPulseCount' = totalPulseCount
               /\ invalidPulseCount' = invalidPulseCount
               /\ lastPulseDuration' = lastPulseDuration
               /\ minPulseDuration' = minPulseDuration
               /\ maxPulseDuration' = maxPulseDuration]_vars

\* C17 witness: a report has just been emitted, with no falling transition
\* in the same iteration, while pulses of both kinds are on record
C17_Witness ==
    /\ reported /\ edge # "falling"
    /\ totalPulseCount >= 1 /\ invalidPulseCount >= 1
    /\ maxPulseDuration >= MIN_PULSE_WIDTH
    /\ reportCount >= 2

\* C18: totalPulseCount + invalidPulseCount is the number of confirmed
\* falling transitions (changes of stableState from HIGH to LOW made by
\* loop): an iteration that confirms one adds exactly 1 to the sum, any
\* other iteration, a confirmed rising transition included, changes neither
\* counter.
C18_ScoredOnce ==
    [][pc = "run" =>
        /\ fallingCount' - fallingCount = Bit(stableState /\ ~stableState')
        /\ totalPulseCount' + invalidPulseCount' = fallingCount'
        /\ IF stableState /\ ~stableState'
           THEN totalPulseCount' + invalidPulseCount'
                    = totalPulseCount + invalidPulseCount + 1
           ELSE /\ totalPulseCount' = totalPulseCount
                /\ invalidPulseCount' = invalidPulseCount]_vars

\* C18 witness: a rising transition has just been confirmed with pulses of
\* both kinds already counted, one for each falling transition so far
C18_Witness ==
    /\ edge = "rising" /\ ~initialStable
    /\ totalPulseCount >= 1 /\ invalidPulseCount >= 1
    /\ fallingCount = totalPulseCount + invalidPulseCount

\* C19: once a valid pulse has been counted, MIN_PULSE_WIDTH <=
\* minPulseDuration <= lastPulseDuration <= maxPulseDuration <=
\* MAX_PULSE_WIDTH; before that the three durations are all 0.
C19_StatisticsOrdered ==
    IF totalPulseCount > 0
    THEN /\ MIN_PULSE_WIDTH <= minPulseDuration
         /\ minPulseDuration <= lastPulseDuration
         /\ lastPulseDuration <= maxPulseDuration
         /\ maxPulseDuration <= MAX_PULSE_WIDTH
    ELSE /\ lastPulseDuration = 0
         /\ minPulseDuration = 0
         /\ maxPulseDuration = 0

\* C19 witness: three valid pulses with the last one strictly between the
\* shortest and the longest
C19_Witness ==
    /\ totalPulseCount >= 3 /\ ~initialStable
    /\ minPulseDuration < lastPulseDuration
    /\ lastPulseDuration < maxPulseDuration

\* C20: at the end of every iteration of loop that took a sample,
\* previousState equals currentState, and stableState differs from
\* currentState only if less than DEBOUNCE_TIME has passed since
\* lastStateChangeTime.
C20_AfterTick ==
    sampled =>
        /\ previousState = currentState
        /\ stableState # currentState =>
               Sub(clock, lastStateChangeTime) < DEBOUNCE_TIME

\* C20 witness: a tick one millisecond before the debounce interval ends,
\* the raw state still differing from the stable one
C20_Witness ==
    /\ sampled /\ ~initialStable
    /\ stableState # currentState
    /\ Sub(clock, lastStateChangeTime) = DEBOUNCE_TIME - 1

====
